---- MODULE Spec2Model ----
(***************************************************************************)
(* A model of gwasy: the study index lookup (StudyIndex), the fetch and    *)
(* cache pipeline (Sumstat.from_catalog_sumstat, cache_sumstat), the       *)
(* summary-statistics view transforms (Sumstat.sort, neglog_pvalue,        *)
(* drop_nullable_variants, manhattan) and the metadata client              *)
(* (fetch_study).  The four components share no data, so each has its own  *)
(* specification over the same variables; the variables of the other       *)
(* components stay at their initial value.                                 *)
(***************************************************************************)
EXTENDS Integers, Sequences, FiniteSets, TLC

VARIABLES
    loaded,     \* StudyIndex: the rows from_catalog_studies scanned (never reassigned)
    idx_df,     \* StudyIndex.df: the rows of the object's current frame
    idx_ret,    \* what the last StudyIndex call returned or raised
    idx_last,   \* the last StudyIndex call: [op, study]
    idx_n       \* number of StudyIndex calls made on the object

VARIABLES
    remote,     \* the FTP mirror: [listing, version] of every harmonised directory
    rootExists, \* whether the cache root directory exists
    fs,         \* the files under the cache root: a function from path to file
    f_pc,       \* where the current Sumstat.from_catalog_sumstat call stands
    f_uri,      \* its uri argument
    f_parsed,   \* parsed_uri, the ParseResult handed to cache_sumstat
    f_study,    \* study, the last "/" segment of uri
    f_depth,    \* how many times cache_sumstat re-invoked itself in this call
    f_trace,    \* the side effects of this call, in order (mkdir, connect, ...)
    f_listing,  \* server.nlst() as this call saw it
    f_files,    \* files, the names of the listing that end in .h.tsv.gz
    f_buf,      \* buffer.getvalue(), the downloaded bytes
    f_df,       \* df, the parsed frame, until it is written
    f_result,   \* what the call returned or raised
    f_via,      \* the branch of cache_sumstat that produced the returned frame
    f_before,   \* whether a fetch of the same study file had completed before this call
    first       \* per study file name, the frame the first completed fetch returned

VARIABLES
    v_columns,  \* Sumstat.columns, the column names read at construction
    v_dtypes,   \* Sumstat.dtypes, their types, read at construction
    v_df,       \* Sumstat.df, the view's current frame
    v_prev,     \* the frame before the last transform
    v_ops,      \* the transforms applied so far, in order
    v_ret       \* what the last transform returned: the view itself, or an error

VARIABLES
    m_pc,       \* where the metadata client's process stands
    m_endpoint, \* fetch_study's api_endpoint argument
    m_study,    \* its study argument
    m_safe_uri, \* safe_uri, the uri of the study
    m_gets,     \* the GETs of the current call, each with the status it was answered
    m_exit,     \* the status the process exited with, -1 while it runs
    m_ret,      \* the JSON fetch_study returned
    m_n         \* number of fetch_study calls made

idxVars == <<loaded, idx_df, idx_ret, idx_last, idx_n>>
fetchVars == <<remote, rootExists, fs, f_pc, f_uri, f_parsed, f_study, f_depth, f_trace,
               f_listing, f_files, f_buf, f_df, f_result, f_via, f_before, first>>

viewVars == <<v_columns, v_dtypes, v_df, v_prev, v_ops, v_ret>>

metaVars == <<m_pc, m_endpoint, m_study, m_safe_uri, m_gets, m_exit, m_ret, m_n>>

vars == <<idxVars, fetchVars, viewVars, metaVars>>

(***************************************************************************)
(* Bounds of the model.                                                    *)
(***************************************************************************)
MaxIndexRows == 3
MaxCalls == 3
MaxDepth == 2
MaxRows == 3
MaxOps == 2

(***************************************************************************)
(* StudyIndex (fetch_study_index.py, lines 19-48).                         *)
(***************************************************************************)
\* StudyIndexSchema: the two columns of the index the code reads.
StudyIndexSchema == [ACCESSION_ID |-> "STUDY ACCESSION", SUMSTAT_LOCATION |-> "SUMMARY STATS LOCATION"]

\* Values of the "STUDY ACCESSION" column of the index file, and the studies asked for.
Accessions == {"GCST001", "GCST002"}
Studies == Accessions \cup {"GCST999"}
\* Values of the "SUMMARY STATS LOCATION" column.
Locations == {"https://host/path/to/GCST001", "https://host/path/to/GCST002"}

\* A row of the index, a function from column name to cell.
IndexRow(acc, loc) ==
    (StudyIndexSchema.ACCESSION_ID :> acc) @@ (StudyIndexSchema.SUMSTAT_LOCATION :> loc)

IndexRows == {IndexRow(a, l) : a \in Accessions, l \in Locations}

\* from_catalog_studies: every frame pl.scan_csv can produce, rows in file order.
\* The accession column is not a key: the same accession may occur in several rows.
from_catalog_studies == UNION {[1..n -> IndexRows] : n \in 0..MaxIndexRows}

\* df.filter(pl.col(<name>) == value): the rows that match, in the frame's order.
FilterEq(df, name, value) == SelectSeq(df, LAMBDA r : r[name] = value)

\* df.select(pl.col(<name>)).collect(): the one column, as a sequence of cells.
SelectCol(df, name) == [i \in 1..Len(df) |-> df[i][name]]

Value(v) == [kind |-> "value", val |-> v]
Raised(e) == [kind |-> e, val |-> ""]
NoCall == [kind |-> "none", val |-> ""]
Self == [kind |-> "self", val |-> ""]

\* DataFrame.item() without a row and a column: the frame must be of shape (1, 1).
ItemStrict(col) == IF Len(col) = 1 THEN Value(col[1]) ELSE Raised("ValueError")

\* DataFrame.item(0, 0): the cell at row 0 of column 0; row 0 of an empty frame
\* is out of bounds (IndexError, a LookupError).
Item00(col) == IF Len(col) = 0 THEN Raised("IndexError") ELSE Value(col[1])

\* find_study: rebinds self.df to the filtered frame and returns self.
find_study(study) ==
    /\ idx_n < MaxCalls
    /\ idx_df' = FilterEq(idx_df, StudyIndexSchema.ACCESSION_ID, study)
    /\ idx_ret' = Self
    /\ idx_last' = [op |-> "find_study", study |-> study]
    /\ idx_n' = idx_n + 1
    /\ UNCHANGED <<loaded, fetchVars, viewVars, metaVars>>

\* find_sumstat: find_study(study), then the location column's cell (0, 0).
find_sumstat(study) ==
    /\ idx_n < MaxCalls
    /\ idx_df' = FilterEq(idx_df, StudyIndexSchema.ACCESSION_ID, study)
    /\ idx_ret' = Item00(SelectCol(idx_df', StudyIndexSchema.SUMSTAT_LOCATION))
    /\ idx_last' = [op |-> "find_sumstat", study |-> study]
    /\ idx_n' = idx_n + 1
    /\ UNCHANGED <<loaded, fetchVars, viewVars, metaVars>>

FindStudy == \E s \in Studies : find_study(s)
FindSumstat == \E s \in Studies : find_sumstat(s)

IndexInit ==
    /\ loaded \in from_catalog_studies
    /\ idx_df = loaded
    /\ idx_ret = NoCall
    /\ idx_last = [op |-> "none", study |-> ""]
    /\ idx_n = 0

IndexNext == FindStudy \/ FindSumstat

(***************************************************************************)
(* Strings.  A Python str is modelled as the sequence of its characters,   *)
(* so that str.split, str.replace and urlparse act as they do in Python.   *)
(***************************************************************************)
Min(S) == CHOOSE x \in S : \A y \in S : x <= y
Max(S) == CHOOSE x \in S : \A y \in S : x >= y

\* str.find: the first index at which pat occurs in s, 0 when it does not.
IndexOf(s, pat) ==
    LET at == {i \in 1..(Len(s) - Len(pat) + 1) : SubSeq(s, i, i + Len(pat) - 1) = pat}
    IN  IF at = {} THEN 0 ELSE Min(at)

\* s[i:], 1-based.
From(s, i) == SubSeq(s, i, Len(s))

RECURSIVE Replace(_, _, _)
\* str.replace(old, new): every occurrence of old, left to right, not overlapping.
Replace(s, old, new) ==
    LET i == IndexOf(s, old)
    IN  IF i = 0 THEN s
        ELSE SubSeq(s, 1, i - 1) \o new \o Replace(From(s, i + Len(old)), old, new)

RECURSIVE Split(_, _)
\* str.split(sep): the parts between the occurrences of sep, empty parts included.
Split(s, sep) ==
    LET i == IndexOf(s, sep)
    IN  IF i = 0 THEN <<s>>
        ELSE <<SubSeq(s, 1, i - 1)>> \o Split(From(s, i + Len(sep)), sep)

\* seq[-1]
Last(seq) == seq[Len(seq)]

HTTP == <<"h", "t", "t", "p">>
HTTPS == <<"h", "t", "t", "p", "s">>
FTP == <<"f", "t", "p">>
SchemeSep == <<":", "/", "/">>
Slash == <<"/">>
Harmonised == <<"/", "h", "a", "r", "m", "o", "n", "i", "s", "e", "d">>
ParquetExt == <<".", "p", "a", "r", "q", "u", "e", "t">>

\* urllib.parse.urlparse, for urls without "?", "#" and ";": the scheme is the
\* text before the first ":" when that text has no "/" in it, the netloc follows
\* "//" up to the next "/", the path is the rest.
urlparse(url) ==
    LET c == IndexOf(url, <<":">>)
        hasScheme == c > 1 /\ IndexOf(SubSeq(url, 1, c - 1), Slash) = 0
        scheme == IF hasScheme THEN SubSeq(url, 1, c - 1) ELSE <<>>
        rest == IF hasScheme THEN From(url, c + 1) ELSE url
        hasNetloc == Len(rest) >= 2 /\ SubSeq(rest, 1, 2) = <<"/", "/">>
        after == IF hasNetloc THEN From(rest, 3) ELSE rest
        s == IndexOf(after, Slash)
    IN  [scheme |-> scheme,
         netloc |-> IF ~hasNetloc THEN <<>> ELSE IF s = 0 THEN after ELSE SubSeq(after, 1, s - 1),
         path |-> IF ~hasNetloc THEN rest ELSE IF s = 0 THEN <<>> ELSE From(after, s)]

(***************************************************************************)
(* The inputs of the fetch: the uris, the cache root, the FTP mirror.      *)
(***************************************************************************)
Schemes == {HTTP, HTTPS, FTP}
\* The hosts that serve the archive; the second has "http" in its name.
Hosts == {<<"e">>, <<"h", "t", "t", "p", "d">>}
\* The study directories of the archive; the third has "http" in its name.
Paths == {<<"/", "p", "/", "G", "1">>,
          <<"/", "p", "/", "G", "2">>,
          <<"/", "h", "t", "t", "p", "/", "G", "1">>}
\* The uris a study index can hold: with a scheme, or a bare path.
Uris == {s \o SchemeSep \o h \o p : s \in Schemes, h \in Hosts, p \in Paths} \cup Paths

\* tmp_path, the cache root.
TmpPath == <<"/", "t">>

\* File names of a harmonised directory, each a sequence of its dot-separated parts.
HSuffix == <<".h", ".tsv", ".gz">>
FileA == <<"a", ".h", ".tsv", ".gz">>
FileB == <<"b", ".h", ".tsv", ".gz">>
FileRaw == <<"a", ".tsv", ".gz">>
FileMeta == <<"a", ".h", ".tsv", ".gz", "-meta", ".yaml">>
Listings == {<<>>, <<FileRaw, FileMeta>>, <<FileRaw, FileA, FileMeta>>, <<FileB>>, <<FileB, FileA>>}

\* What the mirror serves for a file: a good file in one of two releases, bytes
\* that are no gzip stream, or a gzip stream of a table with a line too long.
Versions == {"r1", "r2", "notgzip", "ragged"}

Null == "<null>"

\* The tab-separated text of a file: a header line and the data lines.
TsvText(name, version) ==
    <<<<"rsid", "p_value">>>> \o
    (IF name = FileA THEN <<<<"rs1", "0.01">>>> ELSE <<<<"rs2", "0.5">>>>) \o
    (IF version = "r2" THEN <<<<"NA", "1.0">>>> ELSE <<>>) \o
    (IF version = "ragged" THEN <<<<"rs3", "0.1", "x">>>> ELSE <<>>)

\* The bytes RETR delivers for a file.
Payload(name, version) ==
    [magic |-> IF version = "notgzip" THEN "text" ELSE "gzip", data |-> TsvText(name, version)]

Remotes == [listing : Listings, version : Versions]

\* ftplib.FTP(host=...) and login(): only the archive's hosts answer.
ConnectOk(netloc) == netloc \in Hosts
\* server.cwd(dir): only the harmonised directory of a study directory exists.
CwdOk(dir) == dir \in {p \o Harmonised : p \in Paths}

\* f.endswith(".h.tsv.gz")
EndsWith(name, suffix) ==
    Len(name) >= Len(suffix) /\ SubSeq(name, Len(name) - Len(suffix) + 1, Len(name)) = suffix

\* [f for f in server.nlst() if f.endswith(".h.tsv.gz")]
HarmonisedFiles(listing) == SelectSeq(listing, LAMBDA f : EndsWith(f, HSuffix))

\* assert len(files) == 1
AssertOff(files) == TRUE
AssertOne(files) == Len(files) = 1

Failure(e) == [kind |-> e, df |-> <<>>]
Frame(df) == [kind |-> "frame", df |-> df]
NoResult == [kind |-> "none", df |-> <<>>]

\* gzip.decompress: the data of a gzip stream, BadGzipFile otherwise.
GzipOk(bytes) == bytes.magic = "gzip"
Decompress(bytes) == bytes.data

\* pl.read_csv(content, separator="\t", null_values=["NA"]): a row per data line,
\* a cell per header column, the token NA read as null; a data line with more
\* fields than the header is an error.
CsvOk(text) == \A i \in 2..Len(text) : Len(text[i]) <= Len(text[1])
read_csv(text) ==
    [columns |-> text[1],
     rows |-> [i \in 1..(Len(text) - 1) |->
                  [j \in 1..Len(text[1]) |->
                      IF j > Len(text[i + 1]) \/ text[i + 1][j] = "NA" THEN Null
                      ELSE text[i + 1][j]]]]

\* tmp_path + "/" + study + ".parquet"
SumstatPathShared(tmp_path, study) == tmp_path \o Slash \o ParquetExt
SumstatPath(tmp_path, study) == tmp_path \o Slash \o study \o ParquetExt

\* df.write_parquet(path): the file holds the frame in parquet form.
write_parquet(files, path, df) ==
    [p \in DOMAIN files \cup {path} |->
        IF p = path THEN [format |-> "parquet", schema |-> df.columns, data |-> df.rows]
        ELSE files[p]]
\* pl.scan_parquet(path)
scan_parquet(files, path) == [columns |-> files[path].schema, rows |-> files[path].data]
\* Path(path).exists()
Exists(files, path) == path \in DOMAIN files

NoFiles == [p \in {} |-> 0]
NoParse == [scheme |-> <<>>, netloc |-> <<>>, path |-> <<>>]

NoBytes == [magic |-> "none", data |-> <<>>]
NoDf == [columns |-> <<>>, rows |-> <<>>]
Event(op, arg) == [op |-> op, arg |-> arg]

\* uri.replace("https", "ftp").replace("http", "ftp")
RewriteUri(uri) == Replace(Replace(uri, HTTPS, FTP), HTTP, FTP)

\* match protocol: case ["http", _] | ["https", _]
MatchProtocol(protocol) == Len(protocol) = 2 /\ protocol[1] \in {HTTP, HTTPS}

\* The cache path the current call reads and writes.
CurrentPath == SumstatPath(TmpPath, f_study)

OthersOfFetch == UNCHANGED <<idxVars, viewVars, metaVars>>

\* Sumstat.from_catalog_sumstat, up to its call of cache_sumstat (lines 58-65, 68-69).
Call(uri) ==
    /\ f_pc \in {"idle", "done", "raised"}
    /\ f_uri' = uri
    /\ f_study' = Last(Split(uri, Slash))
    /\ IF MatchProtocol(Split(uri, SchemeSep))
       THEN /\ f_parsed' = urlparse(RewriteUri(uri))
            /\ f_pc' = "enter"
            /\ f_result' = NoResult
       ELSE /\ f_parsed' = NoParse
            /\ f_pc' = "raised"
            /\ f_result' = Failure("ValueError")
    /\ f_depth' = 0
    /\ f_trace' = <<>>
    /\ f_listing' = <<>>
    /\ f_files' = <<>>
    /\ f_buf' = NoBytes
    /\ f_df' = NoDf
    /\ f_via' = "none"
    /\ f_before' = (f_study' \in DOMAIN first)
    /\ UNCHANGED <<remote, rootExists, fs, first>>
    /\ OthersOfFetch

FromCatalogSumstat == \E uri \in Uris : Call(uri)

\* cache_sumstat, lines 141-146: mkdir, then the cache check; a hit returns the
\* scanned file through every pending cache_sumstat frame and Sumstat(df=df).
Enter ==
    /\ f_pc = "enter"
    /\ rootExists' = TRUE
    /\ f_trace' = Append(f_trace, Event("mkdir", TmpPath))
    /\ IF Exists(fs, CurrentPath)
       THEN /\ f_result' = Frame(scan_parquet(fs, CurrentPath))
            /\ f_via' = "load"
            /\ f_pc' = "done"
            /\ first' = IF f_study \in DOMAIN first THEN first
                        ELSE (f_study :> scan_parquet(fs, CurrentPath)) @@ first
       ELSE /\ f_pc' = "miss"
            /\ UNCHANGED <<f_result, f_via, first>>
    /\ UNCHANGED <<remote, fs, f_uri, f_parsed, f_study, f_depth, f_listing, f_files,
                   f_buf, f_df, f_before>>
    /\ OthersOfFetch

\* lines 148-149: ftplib.FTP(host=uri.netloc); server.login()
Connect ==
    /\ f_pc = "miss"
    /\ f_trace' = Append(f_trace, Event("connect", f_parsed.netloc))
    /\ IF ConnectOk(f_parsed.netloc)
       THEN f_pc' = "connected" /\ UNCHANGED f_result
       ELSE f_pc' = "raised" /\ f_result' = Failure("gaierror")
    /\ UNCHANGED <<remote, rootExists, fs, f_uri, f_parsed, f_study, f_depth, f_listing,
                   f_files, f_buf, f_df, f_via, f_before, first>>
    /\ OthersOfFetch

\* line 150: server.cwd(uri.path + "/harmonised")
Cwd ==
    /\ f_pc = "connected"
    /\ f_trace' = Append(f_trace, Event("cwd", f_parsed.path \o Harmonised))
    /\ IF CwdOk(f_parsed.path \o Harmonised)
       THEN f_pc' = "cwd" /\ UNCHANGED f_result
       ELSE f_pc' = "raised" /\ f_result' = Failure("error_perm")
    /\ UNCHANGED <<remote, rootExists, fs, f_uri, f_parsed, f_study, f_depth, f_listing,
                   f_files, f_buf, f_df, f_via, f_before, first>>
    /\ OthersOfFetch

\* lines 151-152: the listing, its .h.tsv.gz names, and the assertion.
List ==
    /\ f_pc = "cwd"
    /\ f_trace' = Append(f_trace, Event("nlst", <<>>))
    /\ f_listing' = remote.listing
    /\ f_files' = HarmonisedFiles(remote.listing)
    /\ IF AssertOne(f_files')
       THEN f_pc' = "listed" /\ UNCHANGED f_result
       ELSE f_pc' = "raised" /\ f_result' = Failure("AssertionError")
    /\ UNCHANGED <<remote, rootExists, fs, f_uri, f_parsed, f_study, f_depth, f_buf, f_df,
                   f_via, f_before, first>>
    /\ OthersOfFetch

\* lines 153-156: files[0] (IndexError on an empty list), then RETR of it.
Retr ==
    /\ f_pc = "listed"
    /\ IF f_files = <<>>
       THEN /\ f_pc' = "raised"
            /\ f_result' = Failure("IndexError")
            /\ UNCHANGED <<f_trace, f_buf>>
       ELSE /\ f_trace' = Append(f_trace, Event("retr", f_files[1]))
            /\ f_buf' = Payload(f_files[1], remote.version)
            /\ f_pc' = "downloaded"
            /\ UNCHANGED f_result
    /\ UNCHANGED <<remote, rootExists, fs, f_uri, f_parsed, f_study, f_depth, f_listing,
                   f_files, f_df, f_via, f_before, first>>
    /\ OthersOfFetch

\* lines 157-159: gzip.decompress, pl.read_csv, buffer.close()
Parse ==
    /\ f_pc = "downloaded"
    /\ IF ~GzipOk(f_buf)
       THEN f_pc' = "raised" /\ f_result' = Failure("BadGzipFile") /\ UNCHANGED f_df
       ELSE IF ~CsvOk(Decompress(f_buf))
       THEN f_pc' = "raised" /\ f_result' = Failure("ComputeError") /\ UNCHANGED f_df
       ELSE f_pc' = "parsed" /\ f_df' = read_csv(Decompress(f_buf)) /\ UNCHANGED f_result
    /\ f_buf' = NoBytes
    /\ UNCHANGED <<remote, rootExists, fs, f_uri, f_parsed, f_study, f_depth, f_trace,
                   f_listing, f_files, f_via, f_before, first>>
    /\ OthersOfFetch

\* The path line 160 writes to: sumstat_path.
WritePathNoExt == TmpPath \o Slash \o f_study
WritePath == SumstatPath(TmpPath, f_study)

\* lines 160-162: df.write_parquet(sumstat_path)
Write ==
    /\ f_pc = "parsed"
    /\ fs' = write_parquet(fs, WritePath, f_df)
    /\ f_trace' = Append(f_trace, Event("write", WritePath))
    /\ f_df' = NoDf
    /\ f_pc' = "written"
    /\ UNCHANGED <<remote, rootExists, f_uri, f_parsed, f_study, f_depth, f_listing,
                   f_files, f_buf, f_result, f_via, f_before, first>>
    /\ OthersOfFetch

\* line 163: return cache_sumstat(uri, tmp_path, study)
Recurse ==
    /\ f_pc = "written"
    /\ f_depth < MaxDepth
    /\ f_depth' = f_depth + 1
    /\ f_pc' = "enter"
    /\ UNCHANGED <<remote, rootExists, fs, f_uri, f_parsed, f_study, f_trace, f_listing,
                   f_files, f_buf, f_df, f_result, f_via, f_before, first>>
    /\ OthersOfFetch

\* The mirror is not the program's: between two fetches its listing or the
\* release it serves may change.
RemoteChange ==
    /\ f_pc \in {"idle", "done", "raised"}
    /\ remote' \in {r \in Remotes \ {remote} :
                      r.listing = remote.listing \/ r.version = remote.version}
    /\ UNCHANGED <<rootExists, fs, f_pc, f_uri, f_parsed, f_study, f_depth, f_trace,
                   f_listing, f_files, f_buf, f_df, f_result, f_via, f_before, first>>
    /\ OthersOfFetch

FetchIdle ==
    /\ rootExists = FALSE
    /\ fs = NoFiles
    /\ f_pc = "idle"
    /\ f_uri = <<>>
    /\ f_parsed = NoParse
    /\ f_study = <<>>
    /\ f_depth = 0
    /\ f_trace = <<>>
    /\ f_listing = <<>>
    /\ f_files = <<>>
    /\ f_buf = NoBytes
    /\ f_df = NoDf
    /\ f_result = NoResult
    /\ f_via = "none"
    /\ f_before = FALSE
    /\ first = NoFiles

FetchInit == remote \in Remotes /\ FetchIdle

FetchNext ==
    \/ FromCatalogSumstat
    \/ Enter
    \/ Connect
    \/ Cwd
    \/ List
    \/ Retr
    \/ Parse
    \/ Write
    \/ Recurse
    \/ RemoteChange


(***************************************************************************)
(* Properties of the fetch and cache pipeline.                             *)
(***************************************************************************)
\* The text of a uri after its last "/".
LastSegment(u) ==
    LET slashes == {k \in 1..Len(u) : u[k] = "/"}
    IN  IF slashes = {} THEN u ELSE SubSeq(u, Max(slashes) + 1, Len(u))

\* <cache_root>/<last URI segment>.parquet
ExpectedPath(u) == TmpPath \o <<"/">> \o LastSegment(u) \o ParquetExt

\* The operations of a call's trace, and those that go to the network.
Ops(trace) == [i \in 1..Len(trace) |-> trace[i].op]
NetOps(trace) == SelectSeq(Ops(trace), LAMBDA o : o \in {"connect", "cwd", "nlst", "retr"})
Count(trace, op) == Cardinality({i \in 1..Len(trace) : trace[i].op = op})

\* How many names of a listing end in .h.tsv.gz.
NumMatches(listing) ==
    Cardinality({i \in 1..Len(listing) :
        /\ Len(listing[i]) >= 3
        /\ listing[i][Len(listing[i]) - 2] = ".h"
        /\ listing[i][Len(listing[i]) - 1] = ".tsv"
        /\ listing[i][Len(listing[i])] = ".gz"})

C4_OnlySchemeRewritten ==
    f_pc # "idle" =>
        IF urlparse(f_uri).scheme \in {HTTP, HTTPS}
        THEN /\ f_result.kind # "ValueError"
             /\ f_parsed = [scheme |-> FTP, netloc |-> urlparse(f_uri).netloc,
                            path |-> urlparse(f_uri).path]
        ELSE /\ f_result.kind = "ValueError"
             /\ f_pc = "raised"
             /\ f_trace = <<>>

\* C7: when the listing a call saw holds zero or several .h.tsv.gz names, the call
\* has raised AssertionError, has downloaded and written nothing, and the study has
\* no cache file; and every cache file there is holds the parse of a file that was
\* downloaded whole from a good gzip stream.
C7_LayoutViolationFatal ==
    /\ (Count(f_trace, "nlst") > 0 /\ NumMatches(f_listing) # 1) =>
          /\ f_pc = "raised"
          /\ f_result.kind = "AssertionError"
          /\ Count(f_trace, "retr") = 0
          /\ Count(f_trace, "write") = 0
          /\ ~Exists(fs, ExpectedPath(f_uri))
    /\ \A p \in DOMAIN fs :
          \E name \in {FileA, FileB}, v \in {"r1", "r2"} :
              fs[p] = write_parquet(NoFiles, p, read_csv(TsvText(name, v)))[p]

\* C7 witness: the assertion failed on a listing of two .h.tsv.gz names, after
\* another study was cached.
C7_Witness ==
    /\ f_result.kind = "AssertionError"
    /\ NumMatches(f_listing) = 2
    /\ DOMAIN fs # {}

\* C8: a call re-invokes cache_sumstat at most once and connects, lists and writes
\* at most once; the one file it writes is <cache_root>/<last URI segment>.parquet,
\* which exists when the re-invocation checks for it; the re-invocation neither
\* connects nor lists; the returned frame comes from the load-from-disk branch.
C8_WriteThenReload ==
    /\ f_depth <= 1
    /\ Count(f_trace, "connect") <= 1
    /\ Count(f_trace, "nlst") <= 1
    /\ Count(f_trace, "write") <= 1
    /\ \A i \in 1..Len(f_trace) : f_trace[i].op = "write" => f_trace[i].arg = ExpectedPath(f_uri)
    /\ (f_pc = "written" => Exists(fs, ExpectedPath(f_uri)))
    /\ (f_depth = 1 =>
          /\ f_pc \in {"enter", "done"}
          /\ Count(f_trace, "write") = 1
          /\ Exists(fs, ExpectedPath(f_uri)))
    /\ (f_pc = "done" =>
          /\ f_via = "load"
          /\ f_result = Frame(scan_parquet(fs, ExpectedPath(f_uri)))
          /\ f_depth = Count(f_trace, "write"))

\* C8 witness: a miss that wrote the file, re-entered once and returned.
C8_Witness ==
    /\ f_pc = "done"
    /\ f_depth = 1
    /\ Ops(f_trace) = <<"mkdir", "connect", "cwd", "nlst", "retr", "write", "mkdir">>

(***************************************************************************)
(* Sumstat, the summary-statistics view (fetch_study_index.py, 51-136).    *)
(* A frame is [err, cols, rows]: err is "" for a plan that collects, and   *)
(* the error of a lazy plan that will fail when collected; a row is a      *)
(* function from column name to cell.                                      *)
(***************************************************************************)
Range(seq) == {seq[i] : i \in 1..Len(seq)}

\* A Float64 cell: 10^-v ("1e-"), the number v ("num"), -log10(v) for a v that has
\* no such closed form ("-log10"), infinity, not-a-number and null.
Pow10(k) == [t |-> "1e-", v |-> k]
Num(n) == [t |-> "num", v |-> n]
NullFloat == [t |-> "null", v |-> 0]

\* -1 * pl.col(...).log10() of one cell.
NegLog10(x) ==
    CASE x.t = "1e-" -> Num(x.v)
      [] x.t = "num" /\ x.v = 1 -> Num(0)
      [] x.t = "num" /\ x.v = 0 -> [t |-> "inf", v |-> 0]
      [] x.t = "num" /\ x.v > 1 -> [t |-> "-log10", v |-> x.v]
      [] x.t = "null" -> NullFloat
      [] OTHER -> [t |-> "nan", v |-> 0]

\* chromosomes = [str(c) for c in range(1, 23)] + ["X", "Y", "MT"]
chromosomes == [i \in 1..22 |-> ToString(i)] \o <<"X", "Y", "MT">>
\* order = {c: idx + 1 for idx, c in enumerate(chromosomes)}
order(c) == Min({i \in 1..Len(chromosomes) : chromosomes[i] = c})
\* The value of a when/then chain with no otherwise when no branch matches: null,
\* written 0 here; polars sorts nulls first and every rank is at least 1.
NullRank == 0

\* map_chromosomes: pl.when(col == "1").then(1).when(col == "2").then(2)... ;
\* the first branch that matches gives the value.
map_chromosomes(label) ==
    LET hits == {i \in 1..Len(chromosomes) : chromosomes[i] = label}
    IN  IF hits = {} THEN NullRank ELSE order(chromosomes[Min(hits)])

ErrorFrame(e) == [err |-> e, cols |-> <<>>, rows |-> <<>>]

\* df.with_columns(name=<expression>), the expression given by its value in each
\* row: the column is added, or replaced when it exists.
WithColumn(df, name, values) ==
    IF df.err # "" THEN df
    ELSE [err |-> "",
          cols |-> IF name \in Range(df.cols) THEN df.cols ELSE Append(df.cols, name),
          rows |-> [i \in 1..Len(df.rows) |->
                      [c \in Range(df.cols) \cup {name} |->
                          IF c = name THEN values[i] ELSE df.rows[i][c]]]]

\* by=[a, b] with integer cells: ascending in a, then in b.
KeyLe(k1, k2) == k1[1] < k2[1] \/ (k1[1] = k2[1] /\ k1[2] <= k2[2])

\* The orders a sort may leave the rows in: maintain_order is False, so rows whose
\* keys are equal may come out in any order.
SortedOrders(rows, keys) ==
    LET n == Len(rows)
        perms == {f \in [1..n -> 1..n] : \A i, j \in 1..n : i # j => f[i] # f[j]}
        sorted == {f \in perms : \A i \in 1..(n - 1) : KeyLe(keys[f[i]], keys[f[i + 1]])}
    IN  {[i \in 1..n |-> rows[f[i]]] : f \in sorted}

\* df.sort(by=[pl.col(a), pl.col(b)]): every frame the sort may give; a plan that
\* names a column the frame has not fails when collected.
SortBy(df, a, b) ==
    IF df.err # "" THEN {df}
    ELSE IF ~({a, b} \subseteq Range(df.cols)) THEN {ErrorFrame("ColumnNotFoundError")}
    ELSE {[df EXCEPT !.rows = r] :
             r \in SortedOrders(df.rows, [i \in 1..Len(df.rows) |-> <<df.rows[i][a], df.rows[i][b]>>])}

\* self.dtypes[self.columns.index("chromosome")] == pl.String()
ChromosomeIsString(columns, dtypes) ==
    dtypes[Min({i \in 1..Len(columns) : columns[i] = "chromosome"})] = "String"

\* The body of Sumstat.sort (lines 92-134): every frame it may leave in self.df.
SortFrames(df, columns, dtypes) ==
    LET byChromosome ==
            IF "chromosome" \in Range(columns)
            THEN IF ChromosomeIsString(columns, dtypes)
                 THEN SortBy(WithColumn(df, "order",
                                        [i \in 1..Len(df.rows) |-> map_chromosomes(df.rows[i]["chromosome"])]),
                             "order", "position")
                 ELSE SortBy(df, "chromosome", "base_pair_location")
            ELSE {df}
    IN  IF "hm_chrom" \in Range(columns)
        THEN UNION {SortBy(d, "hm_chrom", "hm_pos") : d \in byChromosome}
        ELSE byChromosome

\* The column neglog_pvalue takes the logarithm of.
NeglogSourceChained(cols) == IF "neglog_pval" \in Range(cols) THEN "neglog_pval" ELSE "p_value"
NeglogSource(cols) == "p_value"

\* The body of Sumstat.neglog_pvalue (line 82).
NeglogFrame(df) ==
    IF df.err # "" THEN df
    ELSE IF NeglogSource(df.cols) \notin Range(df.cols) THEN ErrorFrame("ColumnNotFoundError")
    ELSE WithColumn(df, "neglog_pval",
                    [i \in 1..Len(df.rows) |-> NegLog10(df.rows[i][NeglogSource(df.cols)])])

\* pl.col("rsid").is_not_null() of one row.
RsidIsNull(row) == row["rsid"] = Null
RsidIsNotNull(row) == row["rsid"] # Null

\* The filter of Sumstat.drop_nullable_variants (line 88).
DropFrame(df) ==
    IF df.err # "" THEN df
    ELSE IF "rsid" \notin Range(df.cols) THEN ErrorFrame("ColumnNotFoundError")
    ELSE [df EXCEPT !.rows = SelectSeq(df.rows, RsidIsNotNull)]

\* df.select(a, b, c).collect() succeeds.
SelectOk(df, names) == df.err = "" /\ names \subseteq Range(df.cols)

OthersOfView == UNCHANGED <<idxVars, fetchVars, metaVars>>

Applied(op) ==
    /\ Len(v_ops) < MaxOps
    /\ v_ops' = Append(v_ops, op)
    /\ v_prev' = v_df
    /\ UNCHANGED <<v_columns, v_dtypes>>
    /\ OthersOfView

\* Sumstat.sort
sort ==
    /\ Applied("sort")
    /\ v_df' \in SortFrames(v_df, v_columns, v_dtypes)
    /\ v_ret' = "self"

\* Sumstat.neglog_pvalue
neglog_pvalue ==
    /\ Applied("neglog_pvalue")
    /\ v_df' = NeglogFrame(v_df)
    /\ v_ret' = "self"

\* Sumstat.drop_nullable_variants: print(self.df.collect()) raises on a failing
\* plan, before self.df is reassigned.
drop_nullable_variants ==
    /\ Applied("drop_nullable_variants")
    /\ IF v_df.err # ""
       THEN v_df' = v_df /\ v_ret' = v_df.err
       ELSE v_df' = DropFrame(v_df) /\ v_ret' = "self"

\* Sumstat.manhattan: the chain on self, then the collect of the three plotted
\* columns, which raises when the plan fails or a column is missing.
manhattan ==
    /\ Applied("manhattan")
    /\ IF v_df.err # ""
       THEN v_df' = v_df /\ v_ret' = v_df.err
       ELSE /\ v_df' \in {NeglogFrame(d) : d \in SortFrames(DropFrame(v_df), v_columns, v_dtypes)}
            /\ v_ret' = IF SelectOk(v_df', {"base_pair_location", "neglog_pval", "chromosome"})
                        THEN "self" ELSE "ColumnNotFoundError"

(***************************************************************************)
(* The tables a view is built over.                                        *)
(***************************************************************************)
\* The variants the rows are drawn from: chromosome (as its rank), position, rsid,
\* p-value (as the exponent k of 10^-k), harmonised chromosome and position.
Variants == {
    [c |-> 10, pos |-> 2, rsid |-> Null,  p |-> 2, hc |-> 1, hp |-> 5],
    [c |-> 2,  pos |-> 1, rsid |-> "rs1", p |-> 0, hc |-> 2, hp |-> 3],
    [c |-> 2,  pos |-> 1, rsid |-> "rs2", p |-> 1, hc |-> 1, hp |-> 5],
    [c |-> 2,  pos |-> 2, rsid |-> "rs3", p |-> 2, hc |-> 2, hp |-> 1],
    [c |-> 23, pos |-> 1, rsid |-> Null,  p |-> 1, hc |-> 1, hp |-> 4]}

\* The layouts of a table: the type of its chromosome column, the name of its
\* position column, and whether it has the harmonised pair.
Schemas == [dtype : {"String", "Int64"}, posName : {"position", "base_pair_location"},
            hm : BOOLEAN]

SchemaColumns(s) ==
    <<"chromosome", s.posName, "rsid", "p_value">> \o
    (IF s.hm THEN <<"hm_chrom", "hm_pos">> ELSE <<>>)
SchemaDtypes(s) ==
    <<s.dtype, "Int64", "String", "Float64">> \o (IF s.hm THEN <<"Int64", "Int64">> ELSE <<>>)

TableRow(s, v) ==
    [col \in Range(SchemaColumns(s)) |->
        CASE col = "chromosome" -> IF s.dtype = "String" THEN chromosomes[v.c] ELSE v.c
          [] col = s.posName -> v.pos
          [] col = "rsid" -> v.rsid
          [] col = "p_value" -> Pow10(v.p)
          [] col = "hm_chrom" -> v.hc
          [] col = "hm_pos" -> v.hp]

\* Sumstat.__init__ over a table: the frame, and its schema read once.
SumstatInit(s, vs) ==
    /\ v_df = [err |-> "", cols |-> SchemaColumns(s), rows |-> [i \in 1..Len(vs) |-> TableRow(s, vs[i])]]
    /\ v_columns = SchemaColumns(s)
    /\ v_dtypes = SchemaDtypes(s)
    /\ v_prev = v_df
    /\ v_ops = <<>>
    /\ v_ret = "none"

ViewInit ==
    \E s \in Schemas : \E n \in 0..MaxRows : \E vs \in [1..n -> Variants] : SumstatInit(s, vs)

ViewIdle == SumstatInit([dtype |-> "String", posName |-> "position", hm |-> FALSE], <<>>)

ViewNext == sort \/ neglog_pvalue \/ drop_nullable_variants \/ manhattan


(***************************************************************************)
(* Properties of the view's transforms.                                    *)
(***************************************************************************)
\* The chromosome labels in the order of the Chromosome Order Map.
ChromosomeSequence ==
    <<"1", "2", "3", "4", "5", "6", "7", "8", "9", "10", "11", "12", "13", "14", "15", "16",
      "17", "18", "19", "20", "21", "22", "X", "Y", "MT">>
RankOf(label) == CHOOSE i \in 1..Len(ChromosomeSequence) : ChromosomeSequence[i] = label

LastOp == IF v_ops = <<>> THEN "none" ELSE v_ops[Len(v_ops)]
Twice(op) == Len(v_ops) >= 2 /\ v_ops[Len(v_ops)] = op /\ v_ops[Len(v_ops) - 1] = op

\* The table's position column, whatever its name.
PosCol == IF "position" \in Range(v_columns) THEN "position" ELSE "base_pair_location"

\* The rows of a frame cut down to the columns the table was loaded with.
Loaded(rows) == [i \in 1..Len(rows) |-> [c \in Range(v_columns) |-> rows[i][c]]]

Occurrences(rows, r) == Cardinality({i \in 1..Len(rows) : rows[i] = r})
SameRows(a, b) ==
    /\ Len(a) = Len(b)
    /\ \A r \in Range(a) \cup Range(b) : Occurrences(a, r) = Occurrences(b, r)

RECURSIVE IsSubsequence(_, _)
\* a is b with some rows left out, the others in b's order.
IsSubsequence(a, b) ==
    IF a = <<>> THEN TRUE
    ELSE IF b = <<>> THEN FALSE
    ELSE IF a[1] = b[1] THEN IsSubsequence(Tail(a), Tail(b))
    ELSE IsSubsequence(a, Tail(b))

\* C5 (as claimed): sort() on a table with a string chromosome column (and no
\* harmonised pair, which a second sort would order by) succeeds and yields the
\* same rows ordered by chromosome rank 1, ..., 22, X, Y, MT and, within a
\* chromosome, by ascending position.
C5_ChromosomeOrder ==
    (/\ v_ops = <<"sort">>
     /\ ChromosomeIsString(v_columns, v_dtypes)
     /\ "hm_chrom" \notin Range(v_columns)
     /\ Len(v_prev.rows) >= 2) =>
        /\ v_df.err = ""
        /\ SameRows(Loaded(v_df.rows), v_prev.rows)
        /\ \A i \in 1..(Len(v_df.rows) - 1) :
              \/ RankOf(v_df.rows[i]["chromosome"]) < RankOf(v_df.rows[i + 1]["chromosome"])
              \/ /\ v_df.rows[i]["chromosome"] = v_df.rows[i + 1]["chromosome"]
                 /\ v_df.rows[i][PosCol] <= v_df.rows[i + 1][PosCol]

\* C6: drop_nullable_variants on a table of N rows, K of them with a null rsid,
\* returns the view itself, whose frame now has exactly the N - K rows with an
\* rsid, in their former order, every cell and column as before.
C6_DropNullRsid ==
    (LastOp = "drop_nullable_variants" /\ v_prev.err = "") =>
        /\ v_ret = "self"
        /\ v_df.err = ""
        /\ v_df.cols = v_prev.cols
        /\ Len(v_df.rows) =
              Len(v_prev.rows) - Cardinality({i \in 1..Len(v_prev.rows) : v_prev.rows[i]["rsid"] = Null})
        /\ \A i \in 1..Len(v_df.rows) : v_df.rows[i]["rsid"] # Null
        /\ IsSubsequence(v_df.rows, v_prev.rows)

\* C6 witness: three rows went in, some with and some without an rsid.
C6_Witness ==
    /\ LastOp = "drop_nullable_variants"
    /\ v_prev.err = ""
    /\ Len(v_prev.rows) = 3
    /\ Len(v_df.rows) \in {1, 2}
    /\ v_ret = "self"

\* The key the last sort of Sumstat.sort orders a table by.
FinalKey(row) ==
    IF "hm_chrom" \in Range(v_columns) THEN <<row["hm_chrom"], row["hm_pos"]>>
    ELSE IF ChromosomeIsString(v_columns, v_dtypes) THEN <<RankOf(row["chromosome"]), row[PosCol]>>
    ELSE <<row["chromosome"], row[PosCol]>>
KeysOf(df) == [i \in 1..Len(df.rows) |-> FinalKey(df.rows[i])]

\* C9 (amended): a second sort() leaves the same rows with the same sequence of
\* sort keys as the first (rows with equal keys may change places), and a second
\* neglog_pvalue() leaves the frame exactly as the first did: neglog_pval is
\* -log10 of p_value both times, never a transform of the first neglog_pval.
C9_RepeatedTransforms ==
    /\ Twice("sort") =>
          /\ v_df.err = v_prev.err
          /\ v_df.cols = v_prev.cols
          /\ v_df.err = "" => (KeysOf(v_df) = KeysOf(v_prev) /\ SameRows(v_df.rows, v_prev.rows))
    /\ Twice("neglog_pvalue") =>
          /\ v_df = v_prev
          /\ \A i \in 1..Len(v_df.rows) :
                v_df.rows[i]["neglog_pval"] = Num(v_df.rows[i]["p_value"].v)

\* C9 witness: neglog_pvalue ran twice over rows with p-values 0.01 and 1.0.
C9_Witness ==
    /\ Twice("neglog_pvalue")
    /\ v_df.err = ""
    /\ \E i, j \in 1..Len(v_df.rows) :
          /\ v_df.rows[i]["p_value"] = Pow10(2) /\ v_df.rows[i]["neglog_pval"] = Num(2)
          /\ v_df.rows[j]["p_value"] = Pow10(0) /\ v_df.rows[j]["neglog_pval"] = Num(0)

\* C9 (as claimed): a second sort() leaves the row order of the first, and a second
\* neglog_pvalue() makes neglog_pval the transform of the first application's
\* neglog_pval, which differs from it.
C9_AsClaimed ==
    /\ Twice("sort") => v_df.rows = v_prev.rows
    /\ (Twice("neglog_pvalue") /\ v_df.err = "" /\ v_df.rows # <<>>) =>
          /\ \A i \in 1..Len(v_df.rows) :
                v_df.rows[i]["neglog_pval"] = NegLog10(v_prev.rows[i]["neglog_pval"])
          /\ \E i \in 1..Len(v_df.rows) :
                v_df.rows[i]["neglog_pval"] # v_prev.rows[i]["neglog_pval"]

(***************************************************************************)
(* The metadata client (fetch_study_metadata.py, lines 10-49).             *)
(***************************************************************************)
\* Responses
OK == 200
MovedPermanently == 301
BadRequest == 400
NotFound == 404
Statuses == {OK, MovedPermanently, BadRequest, NotFound}

Endpoints == {<<"https://www.ebi.ac.uk/gwas/rest/api">>, <<"http://localhost:8080/api">>}

\* _links.studies.href of the root document, as the text between its braces and
\* the braces themselves; <<>> stands for a root document without that key.
Hrefs == {<<>>,
          <<"https://www.ebi.ac.uk/gwas/rest/api/studies">>,
          <<"https://www.ebi.ac.uk/gwas/rest/api/studies", "{", "?page,size,sort", "}">>,
          <<"https://www.ebi.ac.uk/gwas/rest/api/studies", "{", "?page", "}", "{", "&size", "}">>}

\* re.compile(r"{.*}").sub("", uri): the text from the first "{" to the last "}"
\* goes (the match is greedy); a uri without such a span is left as it is.
RegexSub(uri) ==
    LET opens == {i \in 1..Len(uri) : uri[i] = "{"}
        closes == {i \in 1..Len(uri) : uri[i] = "}"}
    IN  IF opens = {} \/ closes = {} \/ Max(closes) < Min(opens) THEN uri
        ELSE SubSeq(uri, 1, Min(opens) - 1) \o SubSeq(uri, Max(closes) + 1, Len(uri))

\* case Responses.OK.value
IsOkLax(status) == status < BadRequest
IsOk(status) == status = OK

NoJson == [accessionId |-> ""]
Get(url, status) == [url |-> url, status |-> status]

OthersOfMeta == UNCHANGED <<idxVars, fetchVars, viewVars>>

\* fetch_study, lines 32-38 and 47-49: the GET of the endpoint, and on 200 the
\* uri of the study; any other status logs and exits with status 1. A root
\* document without _links.studies.href raises KeyError.
GetRoot(endpoint, study, status, href) ==
    /\ m_pc \in {"idle", "returned", "raised"}
    /\ m_n < MaxCalls
    /\ m_n' = m_n + 1
    /\ m_endpoint' = endpoint
    /\ m_study' = study
    /\ m_gets' = <<Get(endpoint, status)>>
    /\ m_ret' = NoJson
    /\ IF IsOk(status)
       THEN IF href = <<>>
            THEN m_pc' = "raised" /\ m_safe_uri' = <<>> /\ UNCHANGED m_exit
            ELSE m_pc' = "root_ok" /\ m_safe_uri' = RegexSub(href) \o <<"/", study>> /\ UNCHANGED m_exit
       ELSE m_pc' = "exited" /\ m_exit' = 1 /\ m_safe_uri' = <<>>
    /\ OthersOfMeta

\* fetch_study, lines 39-46: the GET of the study; 200 returns its JSON, any other
\* status logs and exits with status 1.
GetStudy(status) ==
    /\ m_pc = "root_ok"
    /\ m_gets' = Append(m_gets, Get(m_safe_uri, status))
    /\ IF IsOk(status)
       THEN m_pc' = "returned" /\ m_ret' = [accessionId |-> m_study] /\ UNCHANGED m_exit
       ELSE m_pc' = "exited" /\ m_exit' = 1 /\ UNCHANGED m_ret
    /\ UNCHANGED <<m_endpoint, m_study, m_safe_uri, m_n>>
    /\ OthersOfMeta

FetchStudyRoot ==
    \E e \in Endpoints, s \in Studies, st \in Statuses, h \in Hrefs : GetRoot(e, s, st, h)
FetchStudyStudy == \E st \in Statuses : GetStudy(st)

MetaInit ==
    /\ m_pc = "idle"
    /\ m_endpoint = <<>>
    /\ m_study = ""
    /\ m_safe_uri = <<>>
    /\ m_gets = <<>>
    /\ m_exit = -1
    /\ m_ret = NoJson
    /\ m_n = 0

MetaNext == FetchStudyRoot \/ FetchStudyStudy

IdxIdle == IndexInit /\ loaded = <<>>
FetchAtRest == remote = [listing |-> <<>>, version |-> "r1"] /\ FetchIdle

\* Each component alone: its initial states, the other components at rest.
InitOfIndex == IndexInit /\ FetchAtRest /\ ViewIdle /\ MetaInit
InitOfFetch == FetchInit /\ IdxIdle /\ ViewIdle /\ MetaInit
InitOfView == ViewInit /\ IdxIdle /\ FetchAtRest /\ MetaInit
InitOfMeta == MetaInit /\ IdxIdle /\ FetchAtRest /\ ViewIdle

SpecIndex == InitOfIndex /\ [][IndexNext]_vars
SpecFetch == InitOfFetch /\ [][FetchNext]_vars
SpecView == InitOfView /\ [][ViewNext]_vars
SpecMeta == InitOfMeta /\ [][MetaNext]_vars

(***************************************************************************)
(* Properties of the metadata client.                                      *)
(***************************************************************************)
\* C10: a call issues at most two GETs, the endpoint first; the study GET is issued
\* only after the endpoint answered 200; a GET answered with another status leaves
\* the process exited with status 1 and nothing returned; the study JSON is
\* returned only when both GETs were answered 200.
C10_TwoGetsOrExit ==
    /\ Len(m_gets) <= 2
    /\ (Len(m_gets) >= 1 => m_gets[1].url = m_endpoint)
    /\ (Len(m_gets) = 2 => m_gets[1].status = 200 /\ m_gets[2].url = m_safe_uri)
    /\ (\E i \in 1..Len(m_gets) : m_gets[i].status # 200) =>
          (m_pc = "exited" /\ m_exit = 1 /\ m_ret = NoJson)
    /\ (m_pc = "exited" => \E i \in 1..Len(m_gets) : m_gets[i].status # 200)
    /\ ((m_pc = "returned" \/ m_ret # NoJson) =>
          /\ m_pc = "returned"
          /\ m_ret = [accessionId |-> m_study]
          /\ Len(m_gets) = 2
          /\ \A i \in 1..2 : m_gets[i].status = 200)

\* C10 witness: the endpoint answered 200 and the study GET 404; the process exited.
C10_Witness ==
    /\ m_pc = "exited"
    /\ m_exit = 1
    /\ Len(m_gets) = 2
    /\ m_gets[2].status = 404

(***************************************************************************)
(* Properties of the study index.                                          *)
(***************************************************************************)
\* The rows of the loaded index whose accession is the study, by position.
MatchesOf(study) == {i \in 1..Len(loaded) : loaded[i]["STUDY ACCESSION"] = study}
LocationAt(i) == loaded[i]["SUMMARY STATS LOCATION"]

FirstSumstatCall == idx_n = 1 /\ idx_last.op = "find_sumstat"

C3_LookupIsPureRead ==
    (idx_last.op = "find_sumstat" /\ Cardinality(MatchesOf(idx_last.study)) = 1) =>
        idx_ret = [kind |-> "value", val |-> LocationAt(Min(MatchesOf(idx_last.study)))]

====
